---- MODULE Spec2Model ----
(***************************************************************************)
(* Model of the xiaohongshu comment scraper (src/xhs): the scroll          *)
(* convergence driver, the cascading record extractor with its dedup pass, *)
(* and the scrape_comments flow that strings them together.                *)
(*                                                                         *)
(* Text is modelled as a sequence of UTF-16 code units, one short string   *)
(* per unit ("a", "U+767B"), because the page script measures and cuts     *)
(* strings in code units (length, substring, includes).                    *)
(***************************************************************************)
EXTENDS Integers, Sequences, FiniteSets, TLC

VARIABLES
    pc,              \* position of the flow / of the driver
    driver,          \* "comments": scroll_and_load_comments, "images": scroll_and_expand
    max_rounds,      \* the round budget (max_scrolls)
    round_num,       \* number of loop iterations begun
    last_height,     \* last recorded height
    stable_rounds,   \* consecutive unchanged rounds counted so far
    curr_height,     \* height read before the scroll of the current round
    new_height,      \* height read after the actions of the current round
    text_i,          \* index of the next label of the click loop
    clicked_button,  \* the click loop's flag
    exit,            \* how the driver ended: "none", "stable", "budget", "raised"
    sim,             \* simulated height sequence (<<>>: a live page)
    simPos,          \* position of the simulated page in sim
    feed,            \* the elements the page can still reveal, in order
    dom,             \* the elements of the document, in document order
    hist,            \* history: the unchanged flags of the last rounds (at most 3)
    clicks,          \* history: successful clicks in the current round (2: two or more)
    caught,          \* history: the label loop caught an exception in the current round
    prevMax,         \* history: largest height observed in earlier rounds
    roundMax,        \* history: largest height observed in this round
    grewAll,         \* history: every round after the first grew past prevMax
    cookies,         \* what load_cookies returned (a JSON value; Unset before)
    injected,        \* whether context.add_cookies succeeded
    is_logged_in,    \* what check_login_status returned
    js_result,       \* what page.evaluate(js_code) of extract_comments returned
    ret,             \* what scrape_comments returned (once pc = "returned")
    failed,          \* the step whose exception reached the outer handler
    scraper,         \* the source file whose scraper runs
    cookie_string,   \* the cookie_string argument (<<>>: None or empty)
    cookie_file,     \* the cookie_path argument and what the file holds
    now,             \* int(time.time()) while the cookies are loaded
    probe,           \* what the page answers to check_login_status
    runs,            \* the calls of scrape_comments in flight at once (<<>>: one call)
    shots            \* the calls that have written each screenshot file

vars == <<pc, driver, max_rounds, round_num, last_height, stable_rounds,
          curr_height, new_height, text_i, clicked_button, exit, sim, simPos,
          feed, dom, hist, clicks, caught, prevMax, roundMax, grewAll, cookies,
          injected, is_logged_in, js_result, ret, failed, scraper,
          cookie_string, cookie_file, now, probe, runs, shots>>

driverVars == <<round_num, last_height, stable_rounds, curr_height,
                new_height, text_i, clicked_button, exit, simPos, hist,
                clicks, caught, prevMax, roundMax, grewAll>>

flowVars == <<cookies, injected, is_logged_in, js_result, ret, failed>>

\* The arguments and the environment of a run; no step changes them.  The
\* concurrent calls and the screenshot files belong to the two-call
\* specification, whose only action is not a step of the single call.
envVars == <<scraper, cookie_string, cookie_file, now, probe, runs, shots>>

(***************************************************************************)
(* Bounds of the model.                                                    *)
(***************************************************************************)
MaxRounds == 4
MaxHeight == 1
MaxButtons == 2
MaxScrolls == 2
SimLen == 4

MaxElems == 2
MaxCands == 3
\* Records in a cookie file and segments in a cookie string.
MaxItems == 2
MaxSegs == 3

SeqsUpTo(S, n) == UNION {[1..k -> S] : k \in 0..n}

Max(a, b) == IF a >= b THEN a ELSE b
Min(a, b) == IF a <= b THEN a ELSE b

(***************************************************************************)
(* Text, as the page script sees it: sequences of UTF-16 code units.       *)
(***************************************************************************)
Rep(c, n) == [i \in 1..n |-> c]

WhiteSpace == {" ", "\t", "\n"}

\* String.prototype.includes
Includes(s, sub) ==
    \E i \in 1..(Len(s) - Len(sub) + 1) :
        \A k \in 1..Len(sub) : s[i + k - 1] = sub[k]

\* String.prototype.trim
RECURSIVE TrimStart(_)
TrimStart(s) ==
    IF s # <<>> /\ Head(s) \in WhiteSpace THEN TrimStart(Tail(s)) ELSE s

RECURSIVE TrimEnd(_)
TrimEnd(s) ==
    IF s # <<>> /\ s[Len(s)] \in WhiteSpace
      THEN TrimEnd(SubSeq(s, 1, Len(s) - 1))
      ELSE s

Trim(s) == TrimEnd(TrimStart(s))

\* String.prototype.substring(0, n)
Substring0(s, n) == SubSeq(s, 1, Min(n, Len(s)))

UpperLetters == <<"A", "B", "C", "D", "E", "F", "G", "H", "I", "J", "K", "L",
                  "M", "N", "O", "P", "Q", "R", "S", "T", "U", "V", "W", "X",
                  "Y", "Z">>
LowerLetters == <<"a", "b", "c", "d", "e", "f", "g", "h", "i", "j", "k", "l",
                  "m", "n", "o", "p", "q", "r", "s", "t", "u", "v", "w", "x",
                  "y", "z">>

\* String.prototype.toLowerCase
ToLowerCase(s) ==
    [i \in 1..Len(s) |->
        IF \E k \in 1..26 : UpperLetters[k] = s[i]
          THEN LowerLetters[CHOOSE k \in 1..26 : UpperLetters[k] = s[i]]
          ELSE s[i]]

\* The words the page script looks for.
W_comment == <<"c", "o", "m", "m", "e", "n", "t">>
W_Comment == <<"C", "o", "m", "m", "e", "n", "t">>
W_comment_item == <<"c", "o", "m", "m", "e", "n", "t", "-", "i", "t", "e", "m">>
W_comment_list == <<"c", "o", "m", "m", "e", "n", "t", "-", "l", "i", "s", "t">>
W_note_comment == <<"n", "o", "t", "e", "-", "c", "o", "m", "m", "e", "n", "t">>
W_NoteComment == <<"N", "o", "t", "e", "C", "o", "m", "m", "e", "n", "t">>
W_feed_comment == <<"f", "e", "e", "d", "-", "c", "o", "m", "m", "e", "n", "t">>
W_user_comment == <<"u", "s", "e", "r", "-", "c", "o", "m", "m", "e", "n", "t">>
W_interaction == <<"i", "n", "t", "e", "r", "a", "c", "t", "i", "o", "n">>
\* zhankai gengduo (expand more), chakan quanbu (view all)
L_ExpandMore == <<"U+5C55", "U+5F00", "U+66F4", "U+591A">>
L_ViewAll == <<"U+67E5", "U+770B", "U+5168", "U+90E8">>
\* pinglun (comment), dianzan (like), huifu (reply)
L_Comment == <<"U+8BC4", "U+8BBA">>
L_Like == <<"U+70B9", "U+8D5E">>
L_Reply == <<"U+56DE", "U+590D">>
\* denglu (log in), zhuce (register)
L_Login == <<"U+767B", "U+5F55">>
L_Register == <<"U+6CE8", "U+518C">>
\* red heart, thumbs up
K_Heart == <<"U+2764", "U+FE0F">>
K_Thumb == <<"U+D83D", "U+DC4D">>
\* fenzhong qian (minutes ago), xiaoshi qian (hours ago), tian qian (days
\* ago), ganggang (just now)
K_MinutesAgo == <<"U+5206", "U+949F", "U+524D">>
K_HoursAgo == <<"U+5C0F", "U+65F6", "U+524D">>
K_DaysAgo == <<"U+5929", "U+524D">>
K_JustNow == <<"U+521A", "U+521A">>

(***************************************************************************)
(* The cascading record extractor: the script extract_comments evaluates   *)
(* in the page. An element is [tag, cls, testid, depth, text]: tag name,   *)
(* class attribute, data-testid attribute, nesting depth (the document is  *)
(* listed in document order) and textContent.                              *)
(***************************************************************************)
RECURSIVE SplitWs(_, _)
SplitWs(s, cur) ==
    IF s = <<>> THEN (IF cur = <<>> THEN <<>> ELSE <<cur>>)
    ELSE IF Head(s) \in WhiteSpace
           THEN (IF cur = <<>> THEN <<>> ELSE <<cur>>) \o SplitWs(Tail(s), <<>>)
           ELSE SplitWs(Tail(s), Append(cur, Head(s)))

\* The class list of an element holds the token.
HasClass(e, tok) ==
    \E i \in 1..Len(SplitWs(e.cls, <<>>)) : SplitWs(e.cls, <<>>)[i] = tok

\* Element j is an ancestor of element i.
IsAncestor(d, j, i) ==
    j < i /\ \A k \in (j + 1)..i : d[k].depth > d[j].depth

\* The structural selectors, in the order the script tries them.
Selectors ==
    << [kind |-> "class*", arg |-> W_comment, anc |-> <<>>],
       [kind |-> "class*", arg |-> W_Comment, anc |-> <<>>],
       [kind |-> "testid*", arg |-> W_comment, anc |-> <<>>],
       [kind |-> "class", arg |-> W_comment_item, anc |-> <<>>],
       [kind |-> "descendant", arg |-> W_comment, anc |-> W_comment_list],
       [kind |-> "class*", arg |-> W_note_comment, anc |-> <<>>],
       [kind |-> "class*", arg |-> W_NoteComment, anc |-> <<>>],
       [kind |-> "class*", arg |-> W_feed_comment, anc |-> <<>>],
       [kind |-> "class*", arg |-> W_user_comment, anc |-> <<>>],
       [kind |-> "class*", arg |-> W_interaction, anc |-> <<>>] >>

\* The name the debug log gives the text-feature scan.
TextFeatureBased == Len(Selectors) + 1

\* Element i of document d matches the selector.
Matches(sel, d, i) ==
    CASE sel.kind = "class*" -> Includes(d[i].cls, sel.arg)
      [] sel.kind = "testid*" -> Includes(d[i].testid, sel.arg)
      [] sel.kind = "class" -> HasClass(d[i], sel.arg)
      [] sel.kind = "descendant" ->
            /\ HasClass(d[i], sel.arg)
            /\ \E j \in 1..Len(d) : IsAncestor(d, j, i) /\ HasClass(d[j], sel.anc)

Indices(d) == [i \in 1..Len(d) |-> i]

\* document.querySelectorAll(selector): the matching elements (their
\* positions) in document order.
QuerySelectorAll(sel, d) ==
    SelectSeq(Indices(d), LAMBDA i : Matches(sel, d, i))

\* The loop over the selectors from selector k on: the first selector with
\* a match is adopted. best is commentElements, log is
\* debugInfo.searchResults.
RECURSIVE CascadeNoBreak(_, _, _, _)
CascadeNoBreak(d, k, log, best) ==
    IF k > Len(Selectors) THEN [elements |-> best, log |-> log]
    ELSE LET found == QuerySelectorAll(Selectors[k], d)
             log2 == Append(log, [selector |-> k, found |-> Len(found)])
         IN  CascadeNoBreak(d, k + 1, log2,
                            IF Len(found) > 0 THEN found ELSE best)

RECURSIVE Cascade(_, _, _, _)
Cascade(d, k, log, best) ==
    IF k > Len(Selectors) THEN [elements |-> best, log |-> log]
    ELSE LET found == QuerySelectorAll(Selectors[k], d)
             log2 == Append(log, [selector |-> k, found |-> Len(found)])
         IN  IF Len(found) > 0
               THEN [elements |-> found, log |-> log2]
               ELSE Cascade(d, k + 1, log2, best)

Tier2Tags == {"DIV", "SECTION", "ARTICLE", "SPAN", "P"}

\* The filter of the text-feature scan.
TextFeature(e) ==
    /\ Len(e.text) > 5
    /\ Len(e.text) < 2000
    /\ \/ Includes(ToLowerCase(e.cls), W_comment)
       \/ Includes(e.text, L_Reply)
       \/ Includes(e.text, L_Like)
       \/ Includes(e.text, K_Heart)
       \/ Includes(e.text, K_Thumb)
       \/ Includes(e.text, K_MinutesAgo)
       \/ Includes(e.text, K_HoursAgo)
       \/ Includes(e.text, K_DaysAgo)
       \/ Includes(e.text, K_JustNow)

\* querySelectorAll('div, section, article, span, p') filtered.
TextFeatureScan(d) ==
    SelectSeq(Indices(d),
              LAMBDA i : d[i].tag \in Tier2Tags /\ TextFeature(d[i]))

\* commentElements and debugInfo.searchResults after both tiers.
FindCommentElements(d) ==
    LET c == Cascade(d, 1, <<>>, <<>>)
    IN  IF Len(c.elements) = 0
          THEN [elements |-> TextFeatureScan(d),
                log |-> Append(c.log, [selector |-> TextFeatureBased,
                                       found |-> Len(TextFeatureScan(d))])]
          ELSE c

\* The per-candidate filter on the trimmed text.
DroppedNoLogin(t) ==
    \/ Len(t) < 2
    \/ Includes(t, L_ExpandMore)
    \/ Includes(t, L_ViewAll)
    \/ t = L_Comment
    \/ t = L_Like
    \/ t = L_Reply
    \/ Includes(t, L_Register)

Dropped(t) ==
    \/ Len(t) < 2
    \/ Includes(t, L_ExpandMore)
    \/ Includes(t, L_ViewAll)
    \/ t = L_Comment
    \/ t = L_Like
    \/ t = L_Reply
    \/ Includes(t, L_Login)
    \/ Includes(t, L_Register)

\* commentElements.forEach: the records pushed to comments, in order; index
\* is the candidate's position, which the record's id is built from. A
\* record keeps the fields the dedup pass and the caller read by content.
RECURSIVE ParseCandidates(_, _, _)
ParseCandidates(d, elems, index) ==
    IF index >= Len(elems) THEN <<>>
    ELSE LET e == d[elems[index + 1]]
             textContent == Trim(e.text)
         IN  (IF Dropped(textContent) THEN <<>>
              ELSE << [index |-> index,
                       content |-> textContent,
                       element_class |-> e.cls,
                       element_tag |-> e.tag] >>)
             \o ParseCandidates(d, elems, index + 1)

\* comment.content.substring(0, 30)
KeyLen == 30

ContentKeyWholeContent(content) == content
ContentKeyShort(content) == Substring0(content, 10)
ContentKey(content) == Substring0(content, KeyLen)

\* The test of the dedup loop.
IsNewNoLengthTest(comment, seenContent) ==
    ContentKey(comment.content) \notin seenContent
IsNew(comment, seenContent) ==
    /\ ContentKey(comment.content) \notin seenContent
    /\ Len(comment.content) > 3

\* The dedup loop over comments.
RECURSIVE DedupPrepends(_, _, _)
DedupPrepends(cs, seenContent, uniqueComments) ==
    IF cs = <<>> THEN uniqueComments
    ELSE IF IsNew(Head(cs), seenContent)
           THEN DedupPrepends(Tail(cs),
                              seenContent \cup {ContentKey(Head(cs).content)},
                              <<Head(cs)>> \o uniqueComments)
           ELSE DedupPrepends(Tail(cs), seenContent, uniqueComments)

RECURSIVE Dedup(_, _, _)
Dedup(cs, seenContent, uniqueComments) ==
    IF cs = <<>> THEN uniqueComments
    ELSE IF IsNew(Head(cs), seenContent)
           THEN Dedup(Tail(cs),
                      seenContent \cup {ContentKey(Head(cs).content)},
                      Append(uniqueComments, Head(cs)))
           ELSE Dedup(Tail(cs), seenContent, uniqueComments)

\* What the script returns.
ExtractJs(d) ==
    LET f == FindCommentElements(d)
    IN  [status |-> "ok",
         comments |-> Dedup(ParseCandidates(d, f.elements, 0), {}, <<>>),
         debug |-> f.log]

NotRun == [status |-> "not_run", comments |-> <<>>, debug |-> <<>>]
EvalRaised == [status |-> "raised", comments |-> <<>>, debug |-> <<>>]
EvalMalformed == [status |-> "malformed", comments |-> <<>>, debug |-> <<>>]

(***************************************************************************)
(* The documents the extractor is run on.                                  *)
(***************************************************************************)
Elem(tag, cls, testid, depth, text) ==
    [tag |-> tag, cls |-> cls, testid |-> testid, depth |-> depth,
     text |-> text]

C_None == <<>>
C_UpperComment == <<"C", "O", "M", "M", "E", "N", "T">>
C_InteractionBar == <<"i", "n", "t", "e", "r", "a", "c", "t", "i", "o", "n", "-", "b", "a", "r">>
T_Plain == <<"h", "e", "l", "l", "o", " ", "w", "o", "r", "l", "d">>
\* "huifu (reply) nice"
T_ReplyNice == <<"U+56DE", "U+590D", " ", "n", "i", "c", "e">>

\* Elements that differ in what the selectors and the scan look at.
StructPool ==
    {Elem("DIV", c, <<>>, dp, T_Plain) :
        c \in {C_None, W_comment, W_comment_item, W_comment_list,
               W_NoteComment, C_InteractionBar, C_UpperComment},
        dp \in {0, 1}}
    \cup {Elem("DIV", c, <<"c", "o", "m", "m", "e", "n", "t", "-", "1">>, 0, T_Plain) :
            c \in {C_None, C_InteractionBar}}
    \cup {Elem(t, c, <<>>, 0, x) :
            t \in {"DIV", "LI"}, c \in {C_None, C_UpperComment},
            x \in {T_Plain, T_ReplyNice}}

P30 == Rep("a", KeyLen)

\* Texts that differ in what the per-candidate filter and the dedup pass
\* look at: lengths around 2 and 3, surrounding white space, a shared
\* 30-unit prefix, the chrome labels alone and inside longer text.
TextPool ==
    { <<"a", "b">>,
      <<"a", "b", "c">>,
      << " ", "a", "b", "c", "d", "\n" >>,
      P30 \o <<"x">>,
      P30 \o <<"y">>,
      P30 \o L_Login,
      << " " >> \o L_Like \o << " " >>,
      L_Like \o <<" ", "1", "2">>,
      L_Reply,
      L_Comment,
      L_Reply \o <<" ", "n", "i", "c", "e">>,
      <<"U+8BF7">> \o L_Login \o <<"U+540E">> \o L_Comment,
      L_ExpandMore \o L_Comment,
      L_ViewAll \o <<" ", "5">>,
      L_Register \o <<" ", "n", "o", "w">> }

\* Candidate lists for the filter and the dedup pass: every element of a
\* document carries the same class, one a structural selector matches or
\* one only the text-feature scan accepts.
TextClasses == {W_comment_item, C_UpperComment}

TextDom(c, ts) == [i \in 1..Len(ts) |-> Elem("DIV", c, <<>>, 0, ts[i])]

\* Documents whose elements differ both in the strategy that finds them
\* (the first selector, the second, the text-feature scan only) and in what
\* the filter and the dedup pass make of their text (dropped, too short,
\* kept).
MixPool ==
    {Elem("DIV", c, <<>>, 0, x) :
        c \in {W_comment_item, W_NoteComment, C_UpperComment},
        x \in {L_Login, <<"a", "b", "c">>, T_ReplyNice}}

\* Texts the dedup pass tells apart: length 2, 3 and 4, two texts with one
\* 30-unit prefix, and one text the filter drops.
DedupPool ==
    { <<"a", "b">>,
      <<"a", "b", "c">>,
      << " ", "a", "b", "c", "d", "\n" >>,
      P30 \o <<"x">>,
      P30 \o <<"y">>,
      L_Login }

T_GreatPost == <<"G", "r", "e", "a", "t", " ", "p", "o", "s", "t", "!", " ", "U+D83D", "U+DC4D">>
T_GreatPostDup == <<"G", "r", "e", "a", "t", " ", "p", "o", "s", "t", "!", " ", "U+D83D", "U+DC4D", " ", "(", "d", "u", "p", ")">>

\* The candidates of the specification's end-to-end scenario.
ScenarioDom ==
    << Elem("DIV", W_comment_item, <<>>, 0, T_GreatPost),
       Elem("DIV", W_comment_item, <<>>, 0, T_GreatPostDup),
       Elem("DIV", W_comment_item, <<>>, 0, <<"a", "b">>),
       Elem("DIV", W_comment_item, <<>>, 0, L_Login) >>

\* What the page of the scrape flow reveals as it is scrolled.
FlowFeed ==
    << Elem("DIV", W_comment_item, <<>>, 0, T_ReplyNice),
       Elem("DIV", W_comment_item, <<>>, 0, T_GreatPost) >>

(***************************************************************************)
(* Session preparation: parse_cookie_string and the load_cookies of the    *)
(* three scrapers. A JSON or Python value is a record of one shape: its    *)
(* type t and, by type, its text s (code units), its number n (a bool is   *)
(* 0 or 1), its items (a list) or its fields (a dict: keys in insertion    *)
(* order).                                                                 *)
(***************************************************************************)
J(t, s, n, items, fields) ==
    [t |-> t, s |-> s, n |-> n, items |-> items, fields |-> fields]
JNull == J("null", <<>>, 0, <<>>, <<>>)
JStr(s) == J("str", s, 0, <<>>, <<>>)
JNum(n) == J("num", <<>>, n, <<>>, <<>>)
JBool(b) == J("bool", <<>>, IF b THEN 1 ELSE 0, <<>>, <<>>)
JList(items) == J("list", <<>>, 0, items, <<>>)
JDict(fields) == J("dict", <<>>, 0, <<>>, fields)
\* load_cookies has not returned yet.
Unset == J("unset", <<>>, 0, <<>>, <<>>)

Field(k, v) == [k |-> k, v |-> v]

\* Python truth value ("if cookies:", "if not cookies:").
Truthy(j) ==
    CASE j.t = "str" -> j.s # <<>>
      [] j.t = "num" -> j.n # 0
      [] j.t = "bool" -> j.n = 1
      [] j.t = "list" -> j.items # <<>>
      [] j.t = "dict" -> j.fields # <<>>
      [] OTHER -> FALSE

\* "k in d" and d[k] on a dict.
HasKey(d, k) == \E i \in 1..Len(d.fields) : d.fields[i].k = k
Get(d, k) == d.fields[CHOOSE i \in 1..Len(d.fields) : d.fields[i].k = k].v

\* if k not in cookie: cookie[k] = v
SetDefault(d, k, v) ==
    IF HasKey(d, k) THEN d ELSE JDict(Append(d.fields, Field(k, v)))

S_name == <<"n", "a", "m", "e">>
D_Xhs == <<".", "x", "i", "a", "o", "h", "o", "n", "g", "s", "h", "u", ".", "c", "o", "m">>
S_Slash == <<"/">>
S_Lax == <<"L", "a", "x">>
N_web_session == <<"w", "e", "b", "_", "s", "e", "s", "s", "i", "o", "n">>
N_a1 == <<"a", "1">>
N_websectiga == <<"w", "e", "b", "s", "e", "c", "t", "i", "g", "a">>
N_webId == <<"w", "e", "b", "I", "d">>
N_xsecappid == <<"x", "s", "e", "c", "a", "p", "p", "i", "d">>

\* 24 * 60 * 60
DaySeconds == 86400

\* '"name" in x' for any x: a key of a dict, a substring of a str, an item
\* of a list; a TypeError otherwise.
NameInRaises(x) == x.t \notin {"dict", "str", "list"}
NameIn(x) ==
    CASE x.t = "dict" -> HasKey(x, "name")
      [] x.t = "str" -> Includes(x.s, S_name)
      [] x.t = "list" -> \E i \in 1..Len(x.items) : x.items[i] = JStr(S_name)
      [] OTHER -> FALSE

\* str.split(sep): the pieces of s between the separators, cur being the
\* piece under way.
RECURSIVE Split(_, _, _)
Split(s, sep, cur) ==
    IF s = <<>> THEN <<cur>>
    ELSE IF Head(s) = sep THEN <<cur>> \o Split(Tail(s), sep, <<>>)
    ELSE Split(Tail(s), sep, Append(cur, Head(s)))

\* str.strip()
Strip(s) == TrimEnd(TrimStart(s))

\* pair.split('=', 1): [name, value]
SplitAllEquals(pair) ==
    LET parts == Split(pair, "=", <<>>)
    IN  [name |-> parts[1], value |-> parts[2]]
SplitFirstEquals(pair) ==
    LET i == CHOOSE i \in 1..Len(pair) :
                 pair[i] = "=" /\ \A j \in 1..(i - 1) : pair[j] # "="
    IN  [name |-> SubSeq(pair, 1, i - 1), value |-> SubSeq(pair, i + 1, Len(pair))]

\* The cookie parse_cookie_string builds from one pair at time t.
StringCookie(pair, t) ==
    LET nv == SplitFirstEquals(pair)
        name == Strip(nv.name)
        value == Strip(nv.value)
    IN  JDict(<< Field("name", JStr(name)),
                 Field("value", JStr(value)),
                 Field("domain", JStr(D_Xhs)),
                 Field("path", JStr(S_Slash)),
                 Field("httpOnly", JBool(name \in {N_web_session, N_a1, N_websectiga})),
                 Field("secure", JBool(TRUE)),
                 Field("sameSite", JStr(S_Lax)),
                 Field("expires", JNum(t + DaySeconds)) >>)

\* cookie_pairs: the stripped, non-empty segments.
CookiePairs(cs) ==
    LET segs == Split(cs, ";", <<>>)
        stripped == [i \in 1..Len(segs) |-> Strip(segs[i])]
    IN  SelectSeq(stripped, LAMBDA p : p # <<>>)

RECURSIVE ParsePairs(_, _)
ParsePairs(pairs, t) ==
    IF pairs = <<>> THEN <<>>
    ELSE (IF \E i \in 1..Len(Head(pairs)) : Head(pairs)[i] = "="
            THEN <<StringCookie(Head(pairs), t)>>
            ELSE <<>>)
         \o ParsePairs(Tail(pairs), t)

\* parse_cookie_string (load_cookies_from_string adds a handler nothing in
\* it needs for a str).
parse_cookie_string(cs, t) ==
    IF cs = <<>> THEN JNull
    ELSE JList(ParsePairs(CookiePairs(cs), t))

\* What json.load gave: data, and how load_cookies picks the cookie list
\* out of it. [raised, cookies]: a TypeError raised on the way, or the
\* value of the local cookies.
RECURSIVE FirstNamedList(_)
FirstNamedList(fields) ==
    IF fields = <<>> THEN [raised |-> FALSE, cookies |-> JNull]
    ELSE LET value == Head(fields).v
         IN  IF value.t = "list" /\ Len(value.items) > 0
               THEN IF NameInRaises(value.items[1])
                      THEN [raised |-> TRUE, cookies |-> JNull]
                      ELSE IF NameIn(value.items[1])
                             THEN [raised |-> FALSE, cookies |-> value]
                             ELSE FirstNamedList(Tail(fields))
               ELSE FirstNamedList(Tail(fields))

SelectCookiesNoSingleObject(data) ==
    CASE data.t = "list" -> [raised |-> FALSE, cookies |-> data]
      [] data.t = "dict" ->
            IF HasKey(data, "cookies")
              THEN [raised |-> FALSE, cookies |-> Get(data, "cookies")]
              ELSE FirstNamedList(data.fields)
      [] OTHER -> [raised |-> FALSE, cookies |-> JNull]

SelectCookies(data) ==
    CASE data.t = "list" -> [raised |-> FALSE, cookies |-> data]
      [] data.t = "dict" ->
            IF HasKey(data, "cookies")
              THEN [raised |-> FALSE, cookies |-> Get(data, "cookies")]
              ELSE IF HasKey(data, "value") \/ HasKey(data, "name")
                     THEN [raised |-> FALSE, cookies |-> JList(<<data>>)]
                     ELSE FirstNamedList(data.fields)
      [] OTHER -> [raised |-> FALSE, cookies |-> JNull]

\* "for cookie in cookies": what the loop visits; a number or a bool is
\* not iterable (TypeError); a str gives its characters and a dict its
\* keys, all of them str.
IterRaises(j) == j.t \in {"num", "bool"}
Iter(j) ==
    CASE j.t = "list" -> j.items
      [] j.t = "str" -> [i \in 1..Len(j.s) |-> JStr(<<j.s[i]>>)]
      [] j.t = "dict" -> [i \in 1..Len(j.fields) |-> JStr(<<j.fields[i].k>>)]
      [] OTHER -> <<>>

\* isinstance(cookie, dict) and "name" in cookie and "value" in cookie
IsValidCookieNameOnly(c) == c.t = "dict" /\ HasKey(c, "name")
IsValidCookie(c) == c.t = "dict" /\ HasKey(c, "name") /\ HasKey(c, "value")

\* The defaults load_cookies fills in, by scraper: cookie_extractor adds
\* expires unless expires or maxAge is there; xhs_comments_scraper does not.
WithDefaults(sc, c, t) ==
    LET d == SetDefault(SetDefault(c, "domain", JStr(D_Xhs)), "path", JStr(S_Slash))
    IN  IF sc = "cookie_extractor" /\ ~HasKey(d, "expires") /\ ~HasKey(d, "maxAge")
          THEN JDict(Append(d.fields, Field("expires", JNum(t + DaySeconds))))
          ELSE d

RECURSIVE ValidCookies(_, _, _)
ValidCookies(sc, items, t) ==
    IF items = <<>> THEN <<>>
    ELSE (IF IsValidCookie(Head(items))
            THEN <<WithDefaults(sc, Head(items), t)>>
            ELSE <<>>)
         \o ValidCookies(sc, Tail(items), t)

\* The log of the important cookies: len(cookie['value']) raises a
\* TypeError when the value of one of them is a number, a bool or null.
ImportantNames == {N_web_session, N_a1, N_webId, N_xsecappid}
PreviewRaises(valid) ==
    \E i \in 1..Len(valid) :
        /\ Get(valid[i], "name").t = "str"
        /\ Get(valid[i], "name").s \in ImportantNames
        /\ Get(valid[i], "value").t \in {"num", "bool", "null"}

\* The file a cookie_path names: no path given, no such file, a file that
\* open or json.load fails on, or a file holding data.
NoPath == [kind |-> "no_path", data |-> JNull]
Missing == [kind |-> "missing", data |-> JNull]
Unreadable == [kind |-> "unreadable", data |-> JNull]
JsonFile(data) == [kind |-> "json", data |-> data]

\* The try block of load_cookies of cookie_extractor and xhs_comments_scraper
\* on a file that exists; every exception ends in "return None".
LoadJson(sc, data, t) ==
    LET sel == SelectCookies(data)
    IN  IF sel.raised \/ ~Truthy(sel.cookies) \/ IterRaises(sel.cookies)
          THEN JNull
          ELSE LET valid == ValidCookies(sc, Iter(sel.cookies), t)
               IN  IF PreviewRaises(valid) THEN JNull ELSE JList(valid)

\* load_cookies of xhs_comment_image_scraper: the bare array or the value
\* of "cookies", as they are.
LoadJsonImages(data) ==
    IF data.t = "dict" /\ HasKey(data, "cookies") THEN Get(data, "cookies")
    ELSE IF data.t = "list" THEN data ELSE JNull

\* load_cookies(cookie_path, cookie_string) of scraper sc at time t; only
\* cookie_extractor takes a cookie string, which it prefers to the file.
load_cookies(sc, file, cs, t) ==
    IF sc = "cookie_extractor" /\ cs # <<>> THEN parse_cookie_string(cs, t)
    ELSE IF file.kind # "json" THEN JNull
    ELSE IF sc = "xhs_comment_image_scraper" THEN LoadJsonImages(file.data)
    ELSE LoadJson(sc, file.data, t)

(***************************************************************************)
(* The login probe, check_login_status.                                    *)
(***************************************************************************)
\* What the first element an indicator selects does: query_selector gives
\* None; the element is not visible; it is visible; query_selector or
\* is_visible raises (the inner handler goes on to the next indicator).
ElementOutcomes == {"none", "hidden", "visible", "raises"}

\* login_indicators
NumIndicators == 5

\* The loop over login_indicators.
RECURSIVE HasLoginButton(_)
HasLoginButton(ind) ==
    IF ind = <<>> THEN FALSE
    ELSE IF Head(ind) = "visible" THEN TRUE
    ELSE HasLoginButton(Tail(ind))

U_login == <<"l", "o", "g", "i", "n">>
U_signin == <<"s", "i", "g", "n", "i", "n">>
U_register == <<"r", "e", "g", "i", "s", "t", "e", "r">>
L_PleaseLogin == <<"U+8BF7", "U+767B", "U+5F55">>

\* any(keyword in current_url.lower() for keyword in [...])
IsLoginPageCaseSensitive(url) ==
    \E k \in {U_login, U_signin, U_register} : Includes(url, k)
IsLoginPage(url) ==
    \E k \in {U_login, U_signin, U_register} : Includes(ToLowerCase(url), k)

\* any(keyword in page_text for keyword in [...])
HasLoginText(text) ==
    \E k \in {L_PleaseLogin, L_Login, L_Register} : Includes(text, k)

\* check_login_status on a page answering as p says: the first wait or
\* the read of the page text may raise, and the handler returns False.
check_login_status(p) ==
    IF p.wait_raises \/ p.text_raises THEN FALSE
    ELSE ~(HasLoginButton(p.ind) \/ IsLoginPage(p.url) \/ HasLoginText(p.text))

Probe(w, ind, url, tr, text) ==
    [wait_raises |-> w, ind |-> ind, url |-> url, text_raises |-> tr, text |-> text]

U_Item == <<"/", "i", "t", "e", "m", "/", "1">>
U_LoginPage == <<"/", "l", "o", "g", "i", "n">>
U_SignInPage == <<"/", "S", "i", "g", "n", "I", "n">>
U_RegisterPage == <<"/", "R", "E", "G", "I", "S", "T", "E", "R">>
UrlPool == {U_Item, U_LoginPage, U_SignInPage, U_RegisterPage}

T_LoginSpaced == <<"U+767B", " ", "U+5F55">>
PageTextPool ==
    { T_Plain,
      L_PleaseLogin \o <<"U+540E">> \o L_Comment,
      L_Register \o <<" ", "n", "o", "w">>,
      T_LoginSpaced }

\* A page that shows no sign of a login wall.
QuietProbe == Probe(FALSE, Rep("none", NumIndicators), U_Item, FALSE, T_Plain)

\* The pages the whole flow is run on: no sign of a login wall, a visible
\* login button, and a page whose text cannot be read.
FlowProbes ==
    { QuietProbe,
      Probe(FALSE, <<"none", "raises", "hidden", "visible", "none">>, U_Item, FALSE, T_Plain),
      Probe(FALSE, Rep("none", NumIndicators), U_Item, TRUE, <<>>) }

(***************************************************************************)
(* Cookie inputs.                                                          *)
(***************************************************************************)
Scrapers == {"cookie_extractor", "xhs_comments_scraper", "xhs_comment_image_scraper"}

\* cookie_extractor and xhs_comments_scraper run scroll_and_load_comments,
\* xhs_comment_image_scraper runs scroll_and_expand.
DriverOf(sc) == IF sc = "xhs_comment_image_scraper" THEN "images" ELSE "comments"

\* Records a cookie file may hold: a minimal cookie; an important cookie
\* whose value is a number; a cookie with every field; a cookie with maxAge;
\* records without value, without name, without both; and items that are
\* no records.
K_Min == JDict(<<Field("name", JStr(<<"a">>)), Field("value", JStr(<<"1">>))>>)
K_ImportantNum == JDict(<<Field("name", JStr(N_a1)), Field("value", JNum(5))>>)
K_Full ==
    JDict(<< Field("name", JStr(<<"b">>)), Field("value", JStr(<<"2">>)),
             Field("domain", JStr(<<"x">>)), Field("path", JStr(<<"/", "p">>)),
             Field("expires", JNum(7)) >>)
K_MaxAge ==
    JDict(<< Field("name", JStr(<<"c">>)), Field("value", JStr(<<"3">>)),
             Field("maxAge", JNum(9)) >>)
K_NameOnly == JDict(<<Field("name", JStr(<<"a">>))>>)
K_ValueOnly == JDict(<<Field("value", JStr(<<"1">>))>>)
K_Neither == JDict(<<Field("domain", JStr(<<"x">>))>>)

ItemPool ==
    { K_Min, K_ImportantNum, K_Full, K_MaxAge, K_NameOnly, K_ValueOnly,
      K_Neither, JStr(S_name), JNum(1) }

\* The four tolerated shapes of a cookie file around the records items.
Shapes == {"array", "cookies", "single", "field"}
Shape(sh, items) ==
    CASE sh = "array" -> JList(items)
      [] sh = "cookies" -> JDict(<<Field("cookies", JList(items))>>)
      [] sh = "single" -> items[1]
      [] sh = "field" ->
            JDict(<<Field("version", JNum(1)), Field("data", JList(items))>>)

\* Files of no tolerated shape.
OtherData ==
    { JNull, JNum(3), JStr(<<"a">>),
      JDict(<<Field("cookies", JNull)>>),
      JDict(<<Field("cookies", JNum(3))>>),
      JDict(<<Field("cookies", JStr(<<"a", "b">>))>>),
      JDict(<<Field("cookies", K_Min)>>),
      JDict(<<Field("tags", JList(<<JNum(1)>>)), Field("data", JList(<<K_Min>>))>>),
      JDict(<<Field("tags", JList(<<JStr(<<"x">>)>>)), Field("data", JList(<<K_Min>>))>>) }

\* The segments the cookie strings tried are made of: plain pairs, a value
\* holding "=", an important name, white space around name and value, an
\* empty value, an empty name, no "=", nothing, and white space only.
SegmentPool ==
    { <<"a", "=", "1">>,
      <<"b", "=", "2", "=", "3">>,
      <<"a", "1", "=", "x", " ", "y">>,
      <<" ", "c", " ", "=", " ", "4", " ">>,
      <<"d", "=">>,
      <<"=", "5">>,
      <<"e">>,
      <<>>,
      <<" ">> }

\* "; ".join-like: the segments with ";" between them.
RECURSIVE JoinSegments(_)
JoinSegments(segs) ==
    IF segs = <<>> THEN <<>>
    ELSE IF Len(segs) = 1 THEN Head(segs)
    ELSE Head(segs) \o <<";">> \o JoinSegments(Tail(segs))

\* int(time.time())
Nows == {1000, 1700000000}

\* The cookie inputs the whole flow is run with, as [file, string]: no
\* input, an unreadable file, an empty array, an array of one record with
\* neither name nor value, an array of one cookie, and a cookie string.
FlowCookieInputs ==
    { [file |-> NoPath, string |-> <<>>],
      [file |-> Unreadable, string |-> <<>>],
      [file |-> JsonFile(JList(<<>>)), string |-> <<>>],
      [file |-> JsonFile(JList(<<K_Neither>>)), string |-> <<>>],
      [file |-> JsonFile(JList(<<K_Min>>)), string |-> <<>>],
      [file |-> NoPath, string |-> <<"a", "=", "1">>] }

\* What extract_comment_images may find: no image, or image URLs.
U_Image == <<"h", "t", "t", "p", "s", ":", "/", "/", "x", "h", "s", "c", "d", "n", "/", "1">>
ImageLists == {<<>>, <<U_Image>>}

(***************************************************************************)
(* The scroll convergence driver.                                          *)
(***************************************************************************)
\* Heights a live page may report at any read. The heights of the
\* specification's convergence scenario, 100 and 250, are those of the
\* simulated pages.
Heights == 0..MaxHeight

SimHeights == {0, 100, 250}

\* The simulated pages: every height sequence of 1..SimLen entries.
SimSeqs == SeqsUpTo(SimHeights, SimLen) \ {<<>>}

\* document.body.scrollHeight: any height on a live page; on a simulated
\* page the entry the page stands at (it holds its last height).
PageHeights == IF sim = <<>> THEN Heights ELSE {sim[simPos]}

\* window.scrollTo(0, scrollHeight) moves a simulated page to its next height.
ScrolledPos == IF sim = <<>> THEN simPos ELSE Min(simPos + 1, Len(sim))

\* Lazy loading: a scroll or a click may reveal the next element of the feed.
NextDoms == {dom} \cup (IF Len(dom) < Len(feed)
                          THEN {Append(dom, feed[Len(dom) + 1])}
                          ELSE {})

\* load_more_texts, and the label list of scroll_and_expand.
NumLabels(d) == IF d = "comments" THEN 9 ELSE 5

\* "if stable_rounds >= 3" / "if stable_rounds >= 2".
StableLimitTwo(d) == 2
StableLimitThree(d) == 3
StableLimitFour(d) == 4
StableLimit(d) == IF d = "comments" THEN 3 ELSE 2

\* "for round_num in range(max_rounds)": another iteration is due.
LoopGuardOffByOne(r, m) == r <= m
LoopGuardOneShort(r, m) == r + 1 < m
LoopGuard(r, m) == r < m

\* "if new_height == curr_height == last_height".
UnchangedNoLast(n, c, l) == n = c
UnchangedNoPre(n, c, l) == n = l
Unchanged(n, c, l) == n = c /\ c = l

\* The update of stable_rounds at the end of a round.
NextStableNoReset(s, same) == IF same THEN s + 1 ELSE s
NextStable(s, same) == IF same THEN s + 1 ELSE 0

\* What one button of a label does: not visible; is_visible() raises;
\* click() raises; click and the wait after it succeed; the click succeeds
\* and wait_for_timeout raises.
ButtonKinds == {"hidden", "visible_raises", "click_raises", "clicked",
                "clicked_wait_raises"}

\* What page.query_selector_all(text=...) gives: it raises, or the buttons.
QueryOutcomes ==
    {[raises |-> TRUE, buttons |-> <<>>]}
    \cup {[raises |-> FALSE, buttons |-> b] : b \in SeqsUpTo(ButtonKinds, MaxButtons)}

\* The inner "for button in buttons" of one label: [flag |-> clicked_button
\* after it, n |-> clicks that succeeded, err |-> an exception was raised].
\* An exception leaves the try block.
RECURSIVE ClickFirstVisible(_)
ClickFirstVisible(bs) ==
    IF bs = <<>> THEN [flag |-> FALSE, n |-> 0, err |-> FALSE]
    ELSE CASE Head(bs) = "hidden" -> ClickFirstVisible(Tail(bs))
           [] Head(bs) = "clicked" -> [flag |-> TRUE, n |-> 1, err |-> FALSE]
           [] Head(bs) = "clicked_wait_raises" -> [flag |-> FALSE, n |-> 1, err |-> TRUE]
           [] OTHER -> [flag |-> FALSE, n |-> 0, err |-> TRUE]

\* One label of scroll_and_load_comments.
TryLabelComments(q) ==
    IF q.raises THEN [flag |-> FALSE, n |-> 0, err |-> TRUE]
    ELSE ClickFirstVisible(q.buttons)

\* One label of scroll_and_expand: get_by_text(txt).first, no flag, no break.
TryLabelImages(q) ==
    IF q.raises \/ q.buttons = <<>> THEN [flag |-> FALSE, n |-> 0, err |-> q.raises]
    ELSE [flag |-> FALSE, n |-> ClickFirstVisible(<<Head(q.buttons)>>).n,
          err |-> ClickFirstVisible(<<Head(q.buttons)>>).err]

\* What one iteration of the label loop can come to, over everything the
\* page may answer to the query.
LabelResults(d) ==
    {IF d = "comments" THEN TryLabelComments(q) ELSE TryLabelImages(q) :
        q \in QueryOutcomes}

Last3(s) == IF Len(s) <= 3 THEN s ELSE SubSeq(s, Len(s) - 2, Len(s))

\* Loop head and the first height read of a round.
BeginRound ==
    /\ pc = "loop"
    /\ LoopGuard(round_num, max_rounds)
    /\ \E h \in PageHeights :
          /\ curr_height' = h
          /\ roundMax' = h
    /\ round_num' = round_num + 1
    /\ pc' = "scroll"
    /\ UNCHANGED <<driver, max_rounds, last_height, stable_rounds, new_height,
                   text_i, clicked_button, exit, sim, simPos, feed, dom, hist,
                   clicks, caught, prevMax, grewAll>>
    /\ UNCHANGED flowVars
    /\ UNCHANGED envVars

\* window.scrollTo(...) and the settle wait; the click loop starts.
ScrollToBottom ==
    /\ pc = "scroll"
    /\ simPos' = ScrolledPos
    /\ dom' \in NextDoms
    /\ text_i' = 1
    /\ clicked_button' = FALSE
    /\ clicks' = 0
    /\ caught' = FALSE
    /\ pc' = "labels"
    /\ UNCHANGED <<driver, max_rounds, round_num, last_height, stable_rounds,
                   curr_height, new_height, exit, sim, feed, hist, prevMax,
                   roundMax, grewAll>>
    /\ UNCHANGED flowVars
    /\ UNCHANGED envVars

\* One iteration of the label loop, with its try/except.
TryLabel ==
    /\ pc = "labels"
    /\ \E r \in LabelResults(driver) :
          LET last == r.flag \/ text_i = NumLabels(driver)
          IN  /\ clicked_button' = r.flag
              /\ clicks' = Min(clicks + r.n, 2)
              /\ caught' = (caught \/ r.err)
              /\ text_i' = IF r.flag THEN text_i ELSE text_i + 1
              /\ pc' = IF last THEN "check" ELSE "labels"
              /\ dom' \in (IF r.n > 0 THEN NextDoms ELSE {dom})
    /\ UNCHANGED <<driver, max_rounds, round_num, last_height, stable_rounds,
                   curr_height, new_height, exit, sim, simPos, feed, hist,
                   prevMax, roundMax, grewAll>>
    /\ UNCHANGED flowVars
    /\ UNCHANGED envVars

\* The second height read and the update of the scroll state.
CheckHeight ==
    /\ pc = "check"
    /\ \E h \in PageHeights :
          LET same == Unchanged(h, curr_height, last_height)
              s == NextStable(stable_rounds, same)
              grew == grewAll /\ (round_num = 1 \/ h > prevMax)
          IN  /\ new_height' = h
              /\ stable_rounds' = s
              /\ last_height' = IF same THEN last_height ELSE h
              /\ hist' = Last3(Append(hist, same))
              /\ grewAll' = grew
              /\ prevMax' = IF grew THEN Max(prevMax, Max(roundMax, h)) ELSE 0
              /\ IF same /\ s >= StableLimit(driver)
                   THEN pc' = "scrolled" /\ exit' = "stable"
                   ELSE pc' = "loop" /\ exit' = exit
    /\ roundMax' = 0
    /\ UNCHANGED <<driver, max_rounds, round_num, curr_height, text_i,
                   clicked_button, sim, simPos, feed, dom, clicks, caught>>
    /\ UNCHANGED flowVars
    /\ UNCHANGED envVars

\* range(max_rounds) is exhausted.
EndLoop ==
    /\ pc = "loop"
    /\ ~LoopGuard(round_num, max_rounds)
    /\ pc' = "scrolled"
    /\ exit' = "budget"
    /\ UNCHANGED <<driver, max_rounds, round_num, last_height, stable_rounds,
                   curr_height, new_height, text_i, clicked_button, sim,
                   simPos, feed, dom, hist, clicks, caught, prevMax, roundMax, grewAll>>
    /\ UNCHANGED flowVars
    /\ UNCHANGED envVars

\* The steps of a round outside the try block of the label loop.
DriverRaisingWithLabels == {"loop", "scroll", "labels", "check"}
DriverRaising == {"loop", "scroll", "check"}

\* A height read, the scroll or the settle wait raises: nothing in the
\* driver catches it.
DriverRaises ==
    /\ pc \in DriverRaising
    /\ pc = "loop" => LoopGuard(round_num, max_rounds)
    /\ round_num' = IF pc = "loop" THEN round_num + 1 ELSE round_num
    /\ pc' = "raised"
    /\ exit' = "raised"
    /\ UNCHANGED <<driver, max_rounds, last_height, stable_rounds,
                   curr_height, new_height, text_i, clicked_button, sim,
                   simPos, feed, dom, hist, clicks, caught, prevMax, roundMax, grewAll>>
    /\ UNCHANGED flowVars
    /\ UNCHANGED envVars

FlowStart ==
    /\ cookies = Unset
    /\ injected = FALSE
    /\ is_logged_in = FALSE
    /\ js_result = NotRun
    /\ ret = <<>>
    /\ failed = "none"

\* One call of the scraper: no other call is in flight, no screenshot yet.
SingleCall ==
    /\ runs = <<>>
    /\ shots = <<>>

\* A run whose arguments and page play no part: no cookies, a quiet page.
QuietEnv ==
    /\ scraper = (IF driver = "comments" THEN "cookie_extractor"
                                         ELSE "xhs_comment_image_scraper")
    /\ cookie_string = <<>>
    /\ cookie_file = NoPath
    /\ now = 0
    /\ probe = QuietProbe
    /\ SingleCall

DriverStart ==
    /\ round_num = 0
    /\ last_height = 0
    /\ stable_rounds = 0
    /\ curr_height = 0
    /\ new_height = 0
    /\ text_i = 1
    /\ clicked_button = FALSE
    /\ exit = "none"
    /\ simPos = 1
    /\ hist = <<>>
    /\ clicks = 0
    /\ caught = FALSE
    /\ prevMax = 0
    /\ roundMax = 0
    /\ grewAll = TRUE

\* The driver on its own: either scraper's driver, any budget, on a live
\* page or on a simulated one.
InitDriver ==
    /\ pc = "loop"
    /\ driver \in {"comments", "images"}
    /\ \/ sim = <<>> /\ max_rounds \in 0..MaxRounds
       \/ sim \in SimSeqs /\ max_rounds \in 0..(SimLen + 3)
    /\ feed = <<>>
    /\ dom = <<>>
    /\ DriverStart
    /\ FlowStart
    /\ QuietEnv

NextDriver ==
    \/ BeginRound
    \/ ScrollToBottom
    \/ TryLabel
    \/ CheckHeight
    \/ EndLoop
    \/ DriverRaises

SpecDriver == InitDriver /\ [][NextDriver]_vars

(***************************************************************************)
(* extract_comments, and the flow of scrape_comments around the driver.    *)
(***************************************************************************)
\* extract_comments: the script is evaluated and its comments are returned.
ExtractComments ==
    /\ pc = "extract"
    /\ js_result' = ExtractJs(dom)
    /\ pc' = "close"
    /\ UNCHANGED <<driver, max_rounds, sim, feed, dom>>
    /\ UNCHANGED driverVars
    /\ UNCHANGED <<cookies, injected, is_logged_in, ret, failed>>
    /\ UNCHANGED envVars

\* extract_comments: page.evaluate raises, or its result lacks 'comments'
\* or 'debug'; the handler returns [].
ExtractRaises ==
    /\ pc = "extract"
    /\ js_result' \in {EvalRaised, EvalMalformed}
    /\ pc' = "close"
    /\ UNCHANGED <<driver, max_rounds, sim, feed, dom>>
    /\ UNCHANGED driverVars
    /\ UNCHANGED <<cookies, injected, is_logged_in, ret, failed>>
    /\ UNCHANGED envVars

\* extract_comment_images of the image scraper, right after the driver:
\* the URLs found, or [] when page.evaluate raises.
ExtractImages ==
    /\ pc = "scrolled"
    /\ scraper = "xhs_comment_image_scraper"
    /\ \/ \E urls \in ImageLists :
              js_result' = [status |-> "ok", comments |-> urls, debug |-> <<>>]
       \/ js_result' = EvalRaised
    /\ pc' = "close"
    /\ UNCHANGED <<driver, max_rounds, sim, feed, dom>>
    /\ UNCHANGED driverVars
    /\ UNCHANGED <<cookies, injected, is_logged_in, ret, failed>>
    /\ UNCHANGED envVars

\* chromium.launch and browser.new_context.
Launch ==
    /\ pc = "launch"
    /\ pc' = "load_cookies"
    /\ UNCHANGED <<driver, max_rounds, sim, feed, dom>>
    /\ UNCHANGED driverVars
    /\ UNCHANGED flowVars
    /\ UNCHANGED envVars

\* cookies = load_cookies(...); "if cookies:".
LoadCookies ==
    /\ pc = "load_cookies"
    /\ cookies' = load_cookies(scraper, cookie_file, cookie_string, now)
    /\ pc' = IF Truthy(cookies') THEN "add_cookies" ELSE "new_page"
    /\ UNCHANGED <<driver, max_rounds, sim, feed, dom>>
    /\ UNCHANGED driverVars
    /\ UNCHANGED <<injected, is_logged_in, js_result, ret, failed>>
    /\ UNCHANGED envVars

\* context.add_cookies in its try/except.
AddCookies ==
    /\ pc = "add_cookies"
    /\ injected' \in BOOLEAN
    /\ pc' = "new_page"
    /\ UNCHANGED <<driver, max_rounds, sim, feed, dom>>
    /\ UNCHANGED driverVars
    /\ UNCHANGED <<cookies, is_logged_in, js_result, ret, failed>>
    /\ UNCHANGED envVars

\* context.new_page and set_default_timeout.
NewPage ==
    /\ pc = "new_page"
    /\ pc' = "goto"
    /\ UNCHANGED <<driver, max_rounds, sim, feed, dom>>
    /\ UNCHANGED driverVars
    /\ UNCHANGED flowVars
    /\ UNCHANGED envVars

\* page.goto and the 3 s wait: the page shows what it renders at first.
Goto ==
    /\ pc = "goto"
    /\ dom' \in NextDoms
    /\ pc' = IF scraper = "xhs_comment_image_scraper" THEN "loop" ELSE "probe"
    /\ UNCHANGED <<driver, max_rounds, sim, feed>>
    /\ UNCHANGED driverVars
    /\ UNCHANGED flowVars
    /\ UNCHANGED envVars

\* is_logged_in = await self.check_login_status(page)
CheckLoginStatus ==
    /\ pc = "probe"
    /\ is_logged_in' = check_login_status(probe)
    /\ pc' = "analyze"
    /\ UNCHANGED <<driver, max_rounds, sim, feed, dom>>
    /\ UNCHANGED driverVars
    /\ UNCHANGED <<cookies, injected, js_result, ret, failed>>
    /\ UNCHANGED envVars

\* analyze_page_structure.
AnalyzePageStructure ==
    /\ pc = "analyze"
    /\ pc' = "shot1"
    /\ UNCHANGED <<driver, max_rounds, sim, feed, dom>>
    /\ UNCHANGED driverVars
    /\ UNCHANGED flowVars
    /\ UNCHANGED envVars

\* take_screenshot (it catches its own exceptions), before the driver and
\* after it: scroll_and_load_comments follows the first screenshot and
\* extract_comments the second.
AfterScreenshotExtractsAtOnce(p) == "extract"
AfterScreenshot(p) == IF p = "shot1" THEN "loop" ELSE "extract"

TakeScreenshot ==
    /\ pc \in {"shot1", "scrolled"}
    /\ scraper # "xhs_comment_image_scraper"
    /\ pc' = AfterScreenshot(pc)
    /\ UNCHANGED <<driver, max_rounds, sim, feed, dom>>
    /\ UNCHANGED driverVars
    /\ UNCHANGED flowVars
    /\ UNCHANGED envVars

\* context.close, browser.close and "return comments".
CloseAndReturn ==
    /\ pc = "close"
    /\ ret' = js_result.comments
    /\ pc' = "returned"
    /\ UNCHANGED <<driver, max_rounds, sim, feed, dom>>
    /\ UNCHANGED driverVars
    /\ UNCHANGED <<cookies, injected, is_logged_in, js_result, failed>>
    /\ UNCHANGED envVars

\* The steps of scrape_comments and scrape that may raise ("raised": an
\* exception has left the driver), and those among them a handler of their
\* own surrounds: context.add_cookies, check_login_status, take_screenshot
\* or extract_comment_images, extract_comments.
Raising ==
    {"launch", "add_cookies", "new_page", "goto", "probe", "analyze", "shot1",
     "scrolled", "extract", "close", "raised"}

HandledNoAddCookies == {"probe", "shot1", "scrolled", "extract"}
HandledNoProbe == {"add_cookies", "shot1", "scrolled", "extract"}
HandledNoExtract == {"add_cookies", "probe", "shot1", "scrolled"}
HandledLocally == {"add_cookies", "probe", "shot1", "scrolled", "extract"}

\* The steps of scrape_comments outside any inner handler: an exception in
\* one of them, or one that left the driver, reaches "except Exception" of
\* scrape_comments, which returns [].
OuterCatchesAfterNavigation(step) == step \notin {"launch", "new_page", "goto"}
\* "except Exception" of scrape_comments (and of scrape) encloses the whole
\* body, the browser launch and the navigation included.
OuterCatches(step) == step \in Raising

OuterExcept ==
    /\ pc \in Raising \ HandledLocally
    /\ failed' = pc
    /\ ret' = IF OuterCatches(pc) THEN <<>> ELSE ret
    /\ pc' = IF OuterCatches(pc) THEN "returned" ELSE "error"
    /\ UNCHANGED <<driver, max_rounds, sim, feed, dom>>
    /\ UNCHANGED driverVars
    /\ UNCHANGED <<cookies, injected, is_logged_in, js_result>>
    /\ UNCHANGED envVars

\* scrape_comments of cookie_extractor and scrape of the image scraper, on
\* a live page.
Init ==
    /\ pc = "launch"
    /\ scraper \in {"cookie_extractor", "xhs_comment_image_scraper"}
    /\ driver = DriverOf(scraper)
    /\ max_rounds \in 0..MaxScrolls
    /\ sim = <<>>
    /\ feed = FlowFeed
    /\ dom = <<>>
    /\ \E inp \in FlowCookieInputs :
          /\ cookie_file = inp.file
          /\ cookie_string = (IF scraper = "cookie_extractor" THEN inp.string ELSE <<>>)
    /\ now = 1000
    /\ probe \in (IF scraper = "cookie_extractor" THEN FlowProbes ELSE {QuietProbe})
    /\ SingleCall
    /\ DriverStart
    /\ FlowStart

Next ==
    \/ Launch
    \/ LoadCookies
    \/ AddCookies
    \/ NewPage
    \/ Goto
    \/ CheckLoginStatus
    \/ AnalyzePageStructure
    \/ TakeScreenshot
    \/ BeginRound
    \/ ScrollToBottom
    \/ TryLabel
    \/ CheckHeight
    \/ EndLoop
    \/ DriverRaises
    \/ ExtractComments
    \/ ExtractRaises
    \/ ExtractImages
    \/ CloseAndReturn
    \/ OuterExcept

Spec == Init /\ [][Next]_vars

\* extract_comments on its own, on every document of the pools.
InitExtract ==
    /\ pc = "extract"
    /\ driver = "comments"
    /\ max_rounds = 0
    /\ sim = <<>>
    /\ feed = <<>>
    /\ \/ \E n \in 0..MaxElems : dom \in [1..n -> StructPool]
       \/ \E n \in 0..MaxCands, c \in TextClasses :
             \E ts \in [1..n -> TextPool] : dom = TextDom(c, ts)
       \/ dom = ScenarioDom
    /\ DriverStart
    /\ FlowStart
    /\ QuietEnv

NextExtract ==
    \/ ExtractComments
    \/ ExtractRaises

SpecExtract == InitExtract /\ [][NextExtract]_vars

\* extract_comments on documents that set the strategies against one
\* another, and on candidate lists made of the texts the dedup pass tells
\* apart.
InitAssemble ==
    /\ pc = "extract"
    /\ driver = "comments"
    /\ max_rounds = 0
    /\ sim = <<>>
    /\ feed = <<>>
    /\ \/ \E n \in 1..MaxElems : dom \in [1..n -> MixPool]
       \/ \E n \in 0..MaxCands :
             \E ts \in [1..n -> DedupPool] : dom = TextDom(W_comment_item, ts)
    /\ DriverStart
    /\ FlowStart
    /\ QuietEnv

SpecAssemble == InitAssemble /\ [][NextExtract]_vars

\* load_cookies on its own: each scraper's, on cookie strings made of the
\* segments and on cookie files of every shape.
InitCookies ==
    /\ pc = "load_cookies"
    /\ scraper \in Scrapers
    /\ driver = DriverOf(scraper)
    /\ max_rounds = 0
    /\ sim = <<>>
    /\ feed = <<>>
    /\ dom = <<>>
    /\ now \in Nows
    /\ probe = QuietProbe
    /\ SingleCall
    /\ \/ /\ scraper = "cookie_extractor"
          /\ \E n \in 0..MaxSegs : \E segs \in [1..n -> SegmentPool] :
                cookie_string = JoinSegments(segs)
          /\ cookie_file \in {NoPath, JsonFile(JList(<<K_Full>>))}
       \/ /\ cookie_string = <<>>
          /\ \/ cookie_file \in {NoPath, Missing, Unreadable}
             \/ \E d \in OtherData : cookie_file = JsonFile(d)
             \/ \E n \in 0..MaxItems : \E items \in [1..n -> ItemPool] :
                   \E sh \in Shapes :
                      /\ sh = "single" => (n = 1 /\ items[1].t = "dict")
                      /\ cookie_file = JsonFile(Shape(sh, items))
    /\ DriverStart
    /\ FlowStart

NextCookies == LoadCookies

SpecCookies == InitCookies /\ [][NextCookies]_vars

\* check_login_status on its own, on every answer of the page.
InitProbe ==
    /\ pc = "probe"
    /\ scraper \in {"cookie_extractor", "xhs_comments_scraper"}
    /\ driver = "comments"
    /\ max_rounds = 0
    /\ sim = <<>>
    /\ feed = <<>>
    /\ dom = <<>>
    /\ cookie_string = <<>>
    /\ cookie_file = NoPath
    /\ now = 0
    /\ probe \in [wait_raises : BOOLEAN, ind : [1..NumIndicators -> ElementOutcomes],
                   url : UrlPool, text_raises : BOOLEAN, text : PageTextPool]
    /\ SingleCall
    /\ DriverStart
    /\ FlowStart

NextProbe == CheckLoginStatus

SpecProbe == InitProbe /\ [][NextProbe]_vars

(***************************************************************************)
(* Properties of the driver (SpecDriver).                                  *)
(***************************************************************************)
DriverEnded == pc \in {"scrolled", "raised"}

\* C2: scroll_and_load_comments leaves its loop by the stability stop if and
\* only if the last three rounds were all unchanged (post-action height =
\* pre-action height = recorded height), so it stops in the very round that
\* makes the third consecutive unchanged one; and a run that ends normally
\* with rounds of its budget left has ended by that stop.
C2_StopsAtThirdUnchangedRound ==
    driver = "comments" =>
        /\ (exit = "stable") <=> (hist = <<TRUE, TRUE, TRUE>>)
        /\ (pc = "scrolled" /\ round_num < max_rounds) => exit = "stable"

\* C2 witness: a first round that records a height, then three unchanged
\* rounds, and budget left.
C2_Witness ==
    /\ driver = "comments"
    /\ exit = "stable"
    /\ round_num = 4
    /\ round_num < max_rounds
    /\ last_height > 0

\* C3: when the observed height grows in every round (from the second round
\* on, the post-action height exceeds every height seen in earlier rounds),
\* scroll_and_load_comments runs exactly max_rounds rounds and ends with
\* stable_rounds < 3.
C3_GrowingPageRunsToBudget ==
    (driver = "comments" /\ pc = "scrolled" /\ grewAll) =>
        /\ round_num = max_rounds
        /\ exit = "budget"
        /\ stable_rounds < 3

\* C3 witness: a run of at least three growing rounds has ended.
C3_Witness ==
    /\ driver = "comments"
    /\ pc = "scrolled"
    /\ grewAll
    /\ round_num >= 3
    /\ last_height = 250

\* The simulated height sequence of the convergence scenario.
ScenarioHeights == <<100, 250, 250, 250>>

\* C4: on the simulated page 100, 250, 250, 250 (the page holds 250) and
\* with a budget above 4, scroll_and_load_comments ends in round 4 by the
\* stability stop: it is still running before round 4 ends and never begins
\* a fifth round.
C4_ScenarioEndsAtRoundFour ==
    (driver = "comments" /\ sim = ScenarioHeights /\ max_rounds > 4
     /\ exit # "raised") =>
        /\ pc = "scrolled" => (round_num = 4 /\ exit = "stable")
        /\ round_num = 4 => pc # "loop"
        /\ round_num <= 4

\* C4 witness: the scenario has ended in round 4.
C4_Witness ==
    /\ driver = "comments"
    /\ sim = ScenarioHeights
    /\ max_rounds > 4
    /\ pc = "scrolled"
    /\ round_num = 4
    /\ stable_rounds = 3

\* Steps the driver can still take: every step lowers it.
Measure ==
    IF DriverEnded THEN 0
    ELSE (max_rounds - round_num) * (NumLabels(driver) + 4) + 1
         + (CASE pc = "loop" -> 0
              [] pc = "scroll" -> NumLabels(driver) + 2
              [] pc = "labels" -> NumLabels(driver) + 2 - text_i
              [] pc = "check" -> 1)

\* C5: for every budget, height sequence and click outcome, either driver
\* begins at most max_rounds rounds, and every step brings it closer to its
\* end (it terminates).
C5_RoundBudgetIsCeiling ==
    /\ [](round_num <= max_rounds)
    /\ [][Measure' < Measure]_vars

\* C5 witness: a budget of at least three rounds was used up, with a click
\* in the last round.
C5_Witness ==
    /\ exit = "budget"
    /\ round_num = max_rounds
    /\ max_rounds >= 3
    /\ clicks > 0

(***************************************************************************)
(* Properties of the scrape flow (Spec).                                   *)
(***************************************************************************)
\* C1: when a height read or the scroll raises in some round, the extractor
\* is still run on the document as it stands and scrape_comments returns
\* the records extracted from it.
C1_ExtractsAfterScrollFailure ==
    (pc = "returned" /\ exit = "raised") =>
        /\ js_result.status = "ok"
        /\ ret = ExtractJs(dom).comments

(***************************************************************************)
(* Properties of the extractor (SpecExtract).                              *)
(***************************************************************************)
\* The dedup key as the specification words it.
First30(s) == SubSeq(s, 1, IF Len(s) < 30 THEN Len(s) ELSE 30)

\* The candidates the tiers supply, and their trimmed texts.
Candidates == FindCommentElements(dom).elements
CandidateText(k) == Trim(dom[Candidates[k]].text)

\* C6 as stated: the result holds at most one record per 30-unit key, and
\* the record that survives comes from the first candidate, in traversal
\* order, whose trimmed text has that key.
C6_FirstCandidateSurvives ==
    js_result.status = "ok" =>
        LET res == js_result.comments
            keys == [k \in 1..Len(Candidates) |-> First30(CandidateText(k))]
        IN  /\ \A i, j \in 1..Len(res) :
                  i # j => First30(res[i].content) # First30(res[j].content)
            /\ \A i \in 1..Len(res) : \A k \in 1..Len(keys) :
                  keys[k] = First30(res[i].content) => k >= res[i].index + 1

\* C6 as amended: at most one record per 30-unit key; the record that
\* survives comes from the first candidate with that key among those the
\* per-candidate filter keeps, and its content is that candidate's trimmed
\* text; every kept candidate longer than 3 units has its key in the result.
C6_FirstKeptCandidateSurvives ==
    js_result.status = "ok" =>
        LET res == js_result.comments
            texts == [k \in 1..Len(Candidates) |-> CandidateText(k)]
            kept == {k \in 1..Len(texts) : ~Dropped(texts[k])}
        IN  /\ \A i, j \in 1..Len(res) :
                  i # j => First30(res[i].content) # First30(res[j].content)
            /\ \A i \in 1..Len(res) :
                  /\ res[i].index + 1 \in 1..Len(texts)
                  /\ res[i].content = texts[res[i].index + 1]
                  /\ \A k \in kept :
                        First30(texts[k]) = First30(res[i].content)
                            => k >= res[i].index + 1
            /\ \A k \in kept :
                  Len(texts[k]) > 3
                      => \E i \in 1..Len(res) :
                            First30(res[i].content) = First30(texts[k])

\* C6 witness: three candidates, the first and the last longer than 30
\* units and alike in their first 30, collapsed to the first.
C6_Witness ==
    /\ js_result.status = "ok"
    /\ Len(Candidates) = 3
    /\ Len(CandidateText(1)) > 30
    /\ CandidateText(1) # CandidateText(3)
    /\ First30(CandidateText(1)) = First30(CandidateText(3))
    /\ First30(CandidateText(1)) # First30(CandidateText(2))
    /\ Len(js_result.comments) = 2
    /\ js_result.comments[1].content = CandidateText(1)

Contents(res) == [i \in 1..Len(res) |-> res[i].content]

\* C7 as stated: the end-to-end scenario yields exactly one record, with
\* content "Great post! (thumbs up)".
C7_ScenarioYieldsOneRecord ==
    (dom = ScenarioDom /\ js_result.status = "ok") =>
        Contents(js_result.comments) = <<T_GreatPost>>

\* C7 as amended: the end-to-end scenario yields exactly two records, "Great
\* post! (thumbs up)" and "Great post! (thumbs up) (dup)", in that order:
\* the two texts are shorter than 30 units and differ, so their keys differ.
C7_ScenarioYieldsTwoRecords ==
    (dom = ScenarioDom /\ js_result.status = "ok") =>
        Contents(js_result.comments) = <<T_GreatPost, T_GreatPostDup>>

\* C7 witness: the scenario has been extracted.
C7_Witness ==
    /\ dom = ScenarioDom
    /\ js_result.status = "ok"
    /\ Len(Candidates) = 4
    /\ Len(js_result.comments) = 2

\* The structural selectors with a match in the document.
Matching == {k \in 1..Len(Selectors) : QuerySelectorAll(Selectors[k], dom) # <<>>}
FirstMatching == CHOOSE k \in Matching : \A j \in Matching : k <= j

\* C8: the text-feature scan runs if and only if no structural selector has
\* a match; when one has, the candidates are exactly the matches of the
\* first such selector, which is the last entry of the search log.
C8_TierTwoOnlyWhenTierOneEmpty ==
    js_result.status = "ok" =>
        LET log == js_result.debug
            scanned == \E i \in 1..Len(log) : log[i].selector = TextFeatureBased
            none == (Matching = {})
            cands == IF none THEN TextFeatureScan(dom)
                     ELSE QuerySelectorAll(Selectors[FirstMatching], dom)
        IN  /\ scanned <=> none
            /\ log[Len(log)].found = Len(cands)
            /\ log[Len(log)].selector =
                  (IF none THEN TextFeatureBased ELSE FirstMatching)
            /\ js_result.comments = Dedup(ParseCandidates(dom, cands, 0), {}, <<>>)

\* C8 witness: the third selector is the first with a match, a later
\* selector matches too, and an element the scan would accept is left out.
C8_Witness ==
    /\ js_result.status = "ok"
    /\ Len(dom) = 2
    /\ Matching # {}
    /\ FirstMatching = 3
    /\ Cardinality(Matching) = 2
    /\ QuerySelectorAll(Selectors[3], dom) = <<1>>
    /\ TextFeatureScan(dom) = <<2>>
    /\ Len(js_result.comments) = 1

\* C9: whichever tier supplied the candidates, no record of the result has
\* trimmed content equal to a chrome label (comment, like, reply) or
\* containing "expand more", "view all", "log in" or "register".
C9_NoChromeLabelInResult ==
    \A i \in 1..Len(js_result.comments) :
        LET t == Trim(js_result.comments[i].content)
        IN  /\ t \notin {L_Comment, L_Like, L_Reply}
            /\ ~Includes(t, L_ExpandMore)
            /\ ~Includes(t, L_ViewAll)
            /\ ~Includes(t, L_Login)
            /\ ~Includes(t, L_Register)

\* C9 witness: the text-feature scan supplied three candidates; one holds
\* "log in" beyond its first 30 units, one holds "expand more", and the
\* third became a record.
C9_Witness ==
    /\ js_result.status = "ok"
    /\ Matching = {}
    /\ Len(Candidates) = 3
    /\ Includes(CandidateText(1), L_Login)
    /\ Len(CandidateText(1)) > 30
    /\ Includes(CandidateText(2), L_ExpandMore)
    /\ Len(js_result.comments) = 1

\* C10: every record of the result has trimmed content longer than 3 units
\* (hence longer than 2): a record of 3 units or fewer is dropped even
\* when its key is new.
C10_ContentLongerThanThree ==
    \A i \in 1..Len(js_result.comments) :
        Len(Trim(js_result.comments[i].content)) > 3

\* C10 witness: a candidate of 2 units and one of 3 units passed the
\* per-candidate filter, with keys of their own, and only a third
\* candidate, of 4 units, became a record.
C10_Witness ==
    /\ js_result.status = "ok"
    /\ Len(Candidates) = 3
    /\ Len(CandidateText(1)) = 2 /\ ~Dropped(CandidateText(1))
    /\ Len(CandidateText(2)) = 3 /\ ~Dropped(CandidateText(2))
    /\ Len(CandidateText(3)) = 4
    /\ Len(js_result.comments) = 1
    /\ js_result.comments[1].index = 2

\* C11: the result keeps first-seen order: it is a subsequence of the
\* candidate sequence (each record is the trimmed text of the candidate its
\* index names, and the indices strictly increase), with no reordering.
C11_ResultKeepsCandidateOrder ==
    js_result.status = "ok" =>
        LET res == js_result.comments
            texts == [k \in 1..Len(Candidates) |-> CandidateText(k)]
        IN  /\ \A i \in 1..Len(res) :
                  /\ res[i].index + 1 \in 1..Len(texts)
                  /\ res[i].content = texts[res[i].index + 1]
            /\ \A i \in 1..(Len(res) - 1) : res[i].index < res[i + 1].index

\* C11 witness: of three candidates the middle one was dropped and the
\* other two were returned in document order, the longer text first.
C11_Witness ==
    /\ js_result.status = "ok"
    /\ Len(Candidates) = 3
    /\ Len(js_result.comments) = 2
    /\ js_result.comments[1].index = 0
    /\ js_result.comments[2].index = 2
    /\ Len(js_result.comments[1].content) > Len(js_result.comments[2].content)


(***************************************************************************)
(* Properties of the flow around the extractor and the probe (Spec).       *)
(***************************************************************************)
\* C12: a failure of the evaluation inside extract_comments (page.evaluate
\* raises, or its result has no usable 'comments' and 'debug') never leaves
\* extract_comments as an exception: the extractor yields the empty list, the
\* flow goes on to close the browser, and the call returns the empty list.
C12_ExtractFailureYieldsEmptyList ==
    /\ failed # "extract"
    /\ pc # "error"
    /\ js_result.status \in {"raised", "malformed"} =>
           /\ js_result.comments = <<>>
           /\ pc \in {"close", "returned"}
           /\ pc = "returned" => ret = <<>>

C12_Witness ==
    /\ scraper = "cookie_extractor"
    /\ pc = "returned"
    /\ failed = "none"
    /\ js_result.status = "malformed"
    /\ ExtractJs(dom).comments # <<>>
    /\ ret = <<>>

\* C13 as stated: a failure to launch the browser or to navigate propagates,
\* so the call ends with an error instead of a returned list, while any
\* later failure is caught and the call returns.
C13_LaunchAndNavigateFailuresPropagate ==
    /\ failed \in {"launch", "goto"} => pc = "error"
    /\ failed \notin {"none", "launch", "goto"} => pc = "returned"

\* C13, amended: no failure propagates out of the call.  Whatever step
\* raised, the browser launch and the navigation included, the call ends by
\* returning a list, and the list is empty when the failure reached the
\* handler of scrape_comments or of scrape.
C13_NoFailurePropagates ==
    /\ pc # "error"
    /\ failed # "none" => (pc = "returned" /\ ret = <<>>)
    /\ failed \in Raising \cup {"none"}

C13_Witness ==
    /\ pc = "returned"
    /\ failed = "goto"
    /\ ret = <<>>
    /\ Truthy(cookies)

C20_ProceedsWithoutCookies ==
    /\ [][/\ pc = "load_cookies" =>
                /\ pc' = (IF Truthy(cookies') THEN "add_cookies" ELSE "new_page")
                /\ failed' = "none"
          /\ pc = "add_cookies" => (pc' = "new_page" /\ failed' = "none")]_vars
    /\ []((pc = "returned" /\ failed = "none" /\ ~injected) =>
             /\ exit \in {"stable", "budget"}
             /\ js_result.status # "not_run"
             /\ ret = js_result.comments)

C20_Witness ==
    /\ scraper = "cookie_extractor"
    /\ pc = "returned"
    /\ failed = "none"
    /\ cookie_file # NoPath
    /\ cookie_string = <<>>
    /\ cookies = JNull
    /\ ~injected
    /\ exit \in {"stable", "budget"}
    /\ js_result.status = "ok"
    /\ ret # <<>>


(***************************************************************************)
(* Properties of the login probe (SpecProbe).                              *)
(***************************************************************************)
\* The three signals of the probe, read off the page: an indicator whose
\* element is visible; a keyword in the URL, in any letter case; a login
\* phrase in the page text.
SignalControl == \E i \in 1..NumIndicators : probe.ind[i] = "visible"
SignalUrl ==
    \E k \in {U_login, U_signin, U_register} :
        \E u \in {probe.url, ToLowerCase(probe.url)} : Includes(u, k)
SignalText ==
    \E k \in {L_Login, L_Register} : Includes(probe.text, k)
ProbeError == probe.wait_raises \/ probe.text_raises

Loaded == pc # "load_cookies"

\* A well-formed cookie string: every segment between ";" is name=value
\* with a non-empty name, and neither name nor value (all that follows the
\* first "=") begins or ends with white space.
FirstEquals(seg) ==
    CHOOSE i \in 1..Len(seg) : seg[i] = "=" /\ \A j \in 1..(i - 1) : seg[j] # "="
NamePart(seg) == SubSeq(seg, 1, FirstEquals(seg) - 1)
ValuePart(seg) == SubSeq(seg, FirstEquals(seg) + 1, Len(seg))
WellFormedSegment(seg) ==
    /\ \E i \in 1..Len(seg) : seg[i] = "="
    /\ NamePart(seg) # <<>>
    /\ Strip(NamePart(seg)) = NamePart(seg)
    /\ Strip(ValuePart(seg)) = ValuePart(seg)
WellFormedCookieString ==
    /\ cookie_string # <<>>
    /\ \A i \in 1..Len(Split(cookie_string, ";", <<>>)) :
           WellFormedSegment(Split(cookie_string, ";", <<>>)[i])

\* C16: on a well-formed cookie string, cookie_extractor's load_cookies
\* returns one cookie per segment, in the order of the string, whose name is
\* the segment up to its first "=" and whose value is all that follows it,
\* with domain ".xiaohongshu.com", path "/" and expires 24 hours after now.
C16_OneCookiePerPair ==
    (Loaded /\ scraper = "cookie_extractor" /\ WellFormedCookieString) =>
        LET segs == Split(cookie_string, ";", <<>>)
        IN  /\ cookies.t = "list"
            /\ Len(cookies.items) = Len(segs)
            /\ \A i \in 1..Len(segs) :
                  LET c == cookies.items[i]
                  IN  /\ c.t = "dict"
                      /\ Get(c, "name") = JStr(NamePart(segs[i]))
                      /\ Get(c, "value") = JStr(ValuePart(segs[i]))
                      /\ Get(c, "domain") = JStr(D_Xhs)
                      /\ Get(c, "path") = JStr(S_Slash)
                      /\ Get(c, "expires") = JNum(now + 24 * 60 * 60)

C16_Witness ==
    /\ Loaded
    /\ scraper = "cookie_extractor"
    /\ WellFormedCookieString
    /\ now = 1700000000
    /\ Len(cookies.items) = 3
    /\ Get(cookies.items[1], "name") = JStr(N_a1)
    /\ Get(cookies.items[2], "value") = JStr(<<"2", "=", "3">>)
    /\ Get(cookies.items[3], "value") = JStr(<<>>)


\* Lists of logical cookies: objects that carry a name key.
NamedRecords == {c \in ItemPool : c.t = "dict" /\ HasKey(c, "name")}
CookieLists == UNION {[1..n -> NamedRecords] : n \in 0..MaxItems}

\* The cookie file holds the logical cookies items in shape sh.
FileHolds(sh, items) ==
    /\ cookie_string = <<>>
    /\ sh = "single" => Len(items) = 1
    /\ cookie_file = JsonFile(Shape(sh, items))

\* What load_cookies of the scraper returns on the bare array of items.
FromBareArray(items) == load_cookies(scraper, JsonFile(JList(items)), <<>>, now)

\* C17 as stated: whichever of the four shapes holds the logical cookies,
\* load_cookies of each of the three scrapers returns what it returns on the
\* bare array of the same cookies.
C17_FourShapesAgree ==
    Loaded =>
        \A sh \in Shapes : \A items \in CookieLists :
            FileHolds(sh, items) => cookies = FromBareArray(items)

\* C17, amended: load_cookies of cookie_extractor and of xhs_comments_scraper
\* returns the same on all four shapes; load_cookies of the image scraper
\* returns the list as it is for the bare array and for {cookies: [...]},
\* and None for a single object and for any other list-valued field.
C17_ShapesAgreeButImageScraper ==
    Loaded =>
        \A sh \in Shapes : \A items \in CookieLists :
            FileHolds(sh, items) =>
                IF scraper # "xhs_comment_image_scraper"
                  THEN cookies = FromBareArray(items)
                  ELSE IF sh \in {"array", "cookies"}
                         THEN cookies = JList(items)
                         ELSE cookies = JNull

C17_Witness ==
    /\ Loaded
    /\ scraper = "xhs_comments_scraper"
    /\ FileHolds("field", <<K_Full, K_MaxAge>>)
    /\ cookies.t = "list"
    /\ Len(cookies.items) = 2
    /\ cookies = FromBareArray(<<K_Full, K_MaxAge>>)


\* The records of a cookie file that is a bare array or {cookies: [...]},
\* and a file that is one object with no list inside.
LacksBoth(c) == c.t = "dict" /\ ~HasKey(c, "name") /\ ~HasKey(c, "value")
HasBoth(c) == c.t = "dict" /\ HasKey(c, "name") /\ HasKey(c, "value")
ListOfRecords(data) ==
    IF data.t = "list" THEN data.items
    ELSE IF data.t = "dict" /\ HasKey(data, "cookies")
              /\ Get(data, "cookies").t = "list"
           THEN Get(data, "cookies").items
           ELSE <<>>
SingleObject(data) ==
    /\ data.t = "dict"
    /\ ~HasKey(data, "cookies")
    /\ \A i \in 1..Len(data.fields) : data.fields[i].v.t # "list"

\* A record of the file read lacks both name and value.
HasMalformedRecord ==
    /\ cookie_string = <<>>
    /\ cookie_file.kind = "json"
    /\ \/ \E i \in 1..Len(ListOfRecords(cookie_file.data)) :
              LacksBoth(ListOfRecords(cookie_file.data)[i])
       \/ SingleObject(cookie_file.data) /\ LacksBoth(cookie_file.data)

C19_EveryCookieFullyPopulated ==
    (Loaded /\ scraper \in {"cookie_extractor", "xhs_comments_scraper"}
        /\ cookies.t = "list") =>
        \A i \in 1..Len(cookies.items) :
            LET c == cookies.items[i]
            IN  /\ c.t = "dict"
                /\ HasKey(c, "name")
                /\ HasKey(c, "value")
                /\ HasKey(c, "domain")
                /\ HasKey(c, "path")
                /\ HasKey(c, "expires") \/ HasKey(c, "maxAge")


(***************************************************************************)
(* Further properties of the driver (SpecDriver).                          *)
(***************************************************************************)
\* The update of the scroll state at the end of a round has just been made.
RoundUpdated == pc = "check" /\ pc' \in {"loop", "scrolled"}

\* C22 as stated, the round's current height being the one read after the
\* round's actions: the update sets stable_rounds to 0 when that height
\* differs from last_height and to one more than before when it equals
\* last_height; stable_rounds never decreases except to 0.
C22_ResetsIffHeightDiffersFromLast ==
    /\ [][RoundUpdated =>
             stable_rounds' = (IF new_height' # last_height
                                 THEN 0 ELSE stable_rounds + 1)]_vars
    /\ [][stable_rounds' >= stable_rounds \/ stable_rounds' = 0]_vars

\* C22, amended: the update sets stable_rounds to one more than before when
\* the height read after the round's actions, the height read before them
\* and last_height are all equal, and to 0 otherwise, which includes every
\* round whose post-action height differs from last_height; stable_rounds
\* never decreases except to 0.
C22_ResetsUnlessAllThreeEqual ==
    /\ [][RoundUpdated =>
             /\ stable_rounds' =
                   (IF new_height' = curr_height /\ curr_height = last_height
                      THEN stable_rounds + 1 ELSE 0)
             /\ new_height' # last_height => stable_rounds' = 0]_vars
    /\ [][stable_rounds' >= stable_rounds \/ stable_rounds' = 0]_vars

\* C22 witness: two unchanged rounds, then a round whose post-action height
\* differs from the height read before its actions: the count is reset.
C22_Witness ==
    /\ driver = "comments"
    /\ pc = "loop"
    /\ hist = <<TRUE, TRUE, FALSE>>
    /\ stable_rounds = 0
    /\ new_height # curr_height


\* C23: in a round of either driver at most one click on an expand control
\* succeeds, and once a click has succeeded no further label is tried in
\* that round.
C23_AtMostOneClickPerRound ==
    /\ clicks <= 1
    /\ pc = "labels" => clicks = 0


\* C24: an exception raised while an expand control is queried, tested for
\* visibility or clicked never ends the driver.  Every step of the label
\* loop leads to the next label or to the post-action height read, leaving
\* the scroll state as it was, and a round in which such an exception was
\* caught still updates the scroll state and gives way to the next round.
C24_ClickFailureIsRecoveredLocally ==
    /\ [][pc = "labels" =>
             /\ pc' \in {"labels", "check"}
             /\ exit' = exit
             /\ UNCHANGED <<round_num, last_height, stable_rounds,
                            curr_height, new_height>>]_vars
    /\ []((caught /\ pc \in {"loop", "scrolled"}) =>
             /\ exit \in {"none", "stable", "budget"}
             /\ hist # <<>>
             /\ stable_rounds > 0 => last_height = new_height)

\* C24 witness: round 1 caught an exception without any click, the scroll
\* state was updated, and round 2 has begun.
C24_Witness ==
    /\ driver = "comments"
    /\ pc = "scroll"
    /\ round_num = 2
    /\ caught
    /\ clicks = 0
    /\ Len(hist) = 1
    /\ last_height = new_height
    /\ last_height > 0


\* The simulated page has one height from the first read on.
ConstantPage == sim # <<>> /\ \A i \in 1..Len(sim) : sim[i] = sim[1]

\* C26: on a page of constant height H > 0 and with a budget of at least 4,
\* scroll_and_load_comments runs exactly 4 rounds: round 1 cannot count as
\* unchanged (last_height starts at 0) and only records H, and rounds 2 to 4
\* are the three unchanged ones.  On a page of constant height 0 it stops
\* after exactly 3 rounds.
C26_ConstantPageTakesFourRounds ==
    (driver = "comments" /\ ConstantPage /\ exit # "raised") =>
        IF sim[1] > 0
          THEN max_rounds >= 4 =>
                 /\ round_num <= 4
                 /\ pc = "scrolled" => (round_num = 4 /\ exit = "stable")
                 /\ (round_num = 1 /\ pc = "loop") =>
                        (stable_rounds = 0 /\ last_height = sim[1])
                 /\ (round_num >= 2 /\ pc \in {"loop", "scrolled"}) =>
                        stable_rounds = round_num - 1
          ELSE max_rounds >= 3 =>
                 /\ round_num <= 3
                 /\ pc = "scrolled" => (round_num = 3 /\ exit = "stable")

\* C26 witness: a page of constant height 250 has been given up after four
\* rounds, with budget left.
C26_Witness ==
    /\ driver = "comments"
    /\ ConstantPage
    /\ sim[1] = 250
    /\ max_rounds > 4
    /\ pc = "scrolled"
    /\ exit = "stable"
    /\ round_num = 4
    /\ last_height = 250


\* C27: in every state of scroll_and_load_comments, stable_rounds lies in
\* 0..3, at most max_rounds rounds have begun, stable_rounds is 3 only once
\* the driver has ended, and stable_rounds > 0 means that last_height is the
\* post-action height of the last finished round; and a round that changes
\* last_height is a round that sets stable_rounds to 0.
C27_ScrollStateInvariant ==
    /\ [](driver = "comments" =>
             /\ stable_rounds \in 0..3
             /\ round_num <= max_rounds
             /\ stable_rounds = 3 => pc = "scrolled"
             /\ stable_rounds > 0 => last_height = new_height)
    /\ [][(driver = "comments" /\ last_height' # last_height) =>
              (RoundUpdated /\ stable_rounds' = 0)]_vars

\* C27 witness: on a live page the third unchanged round was the last round
\* of the budget.
C27_Witness ==
    /\ driver = "comments"
    /\ sim = <<>>
    /\ pc = "scrolled"
    /\ stable_rounds = 3
    /\ round_num = max_rounds
    /\ last_height > 0
    /\ last_height = new_height

\* The last two rounds were both unchanged.
LastTwoUnchanged ==
    Len(hist) >= 2 /\ hist[Len(hist)] /\ hist[Len(hist) - 1]

\* C30: scroll_and_expand leaves its loop early if and only if the last two
\* rounds were both unchanged (post-action height = pre-action height =
\* recorded height), so in the very round that is the second consecutive
\* unchanged one; otherwise it runs exactly max_rounds rounds.
C30_ImagesStopAtSecondUnchangedRound ==
    driver = "images" =>
        /\ (exit = "stable") <=> LastTwoUnchanged
        /\ stable_rounds \in 0..2
        /\ (pc = "scrolled" /\ exit # "stable") =>
               (exit = "budget" /\ round_num = max_rounds)

\* C30 witness: a round that records a height, then two unchanged rounds,
\* and budget left.
C30_Witness ==
    /\ driver = "images"
    /\ exit = "stable"
    /\ round_num = 3
    /\ round_num < max_rounds
    /\ stable_rounds = 2
    /\ last_height > 0


(***************************************************************************)
(* The order of the steps of scrape_comments (Spec).                       *)
(***************************************************************************)
\* The steps of scrape_comments in the order of its text; the steps inside
\* the driver have the place of its loop.
FlowOrder ==
    <<"launch", "load_cookies", "add_cookies", "new_page", "goto", "probe",
      "analyze", "shot1", "loop", "scrolled", "extract", "close", "returned">>
Rank(p) ==
    IF p \in {"scroll", "labels", "check", "raised"} THEN 9
    ELSE CHOOSE i \in 1..Len(FlowOrder) : FlowOrder[i] = p

GivesNoRecord(i) ==
    Dropped(Trim(dom[i].text)) \/ Len(Trim(dom[i].text)) <= 3

\* C28: once a structural selector has a match, its matches are the only
\* candidates: the search log ends with that selector (no later selector
\* and no text-feature scan is tried), every record of the result is made
\* from one of its matches, and the result is empty when the filter and the
\* length test leave none of them.
C28_FirstMatchingSelectorIsFinal ==
    (js_result.status = "ok" /\ Matching # {}) =>
        LET log == js_result.debug
            first == QuerySelectorAll(Selectors[FirstMatching], dom)
            res == js_result.comments
        IN  /\ Len(log) = FirstMatching
            /\ \A i \in 1..Len(log) : log[i].selector = i
            /\ \A i \in 1..Len(res) :
                  /\ res[i].index + 1 \in 1..Len(first)
                  /\ res[i].content = Trim(dom[first[res[i].index + 1]].text)
                  /\ res[i].element_class = dom[first[res[i].index + 1]].cls
            /\ (\A k \in 1..Len(first) : GivesNoRecord(first[k])) => res = <<>>

\* C28 witness: the only match of the first selector is dropped, the result
\* is empty, and both the second selector and the text-feature scan would
\* have found an element that gives a record.
C28_Witness ==
    /\ js_result.status = "ok"
    /\ Matching # {}
    /\ FirstMatching = 1
    /\ 2 \in Matching
    /\ js_result.comments = <<>>
    /\ \E i \in 1..Len(dom) :
          /\ i \in {QuerySelectorAll(Selectors[2], dom)[k] :
                       k \in 1..Len(QuerySelectorAll(Selectors[2], dom))}
          /\ ~GivesNoRecord(i)
    /\ \E i \in 1..Len(dom) :
          /\ i \in {TextFeatureScan(dom)[k] : k \in 1..Len(TextFeatureScan(dom))}
          /\ ~GivesNoRecord(i)


\* The records of rs that are the first of their 30-unit key, and those
\* longer than 3 code units.
KeepFirstPerKey(rs) ==
    LET idx == SelectSeq([i \in 1..Len(rs) |-> i],
                         LAMBDA i : \A j \in 1..(i - 1) :
                             First30(rs[j].content) # First30(rs[i].content))
    IN  [k \in 1..Len(idx) |-> rs[idx[k]]]
KeepLong(rs) == SelectSeq(rs, LAMBDA r : Len(r.content) > 3)

\* C29: the one pass of the dedup loop gives what removing the records of
\* length <= 3 and then keeping the first record of each 30-unit key gives,
\* and what keeping the first of each key and then removing the records of
\* length <= 3 gives: a record of length <= 3 suppresses no other record.
C29_FilterAndDedupCommute ==
    js_result.status = "ok" =>
        LET recs == ParseCandidates(dom, Candidates, 0)
        IN  /\ js_result.comments = KeepFirstPerKey(KeepLong(recs))
            /\ js_result.comments = KeepLong(KeepFirstPerKey(recs))

\* C29 witness: of three records the first is too short and the third
\* repeats the key of the second; the second alone is returned.
C29_Witness ==
    /\ js_result.status = "ok"
    /\ Len(ParseCandidates(dom, Candidates, 0)) = 3
    /\ Len(ParseCandidates(dom, Candidates, 0)[1].content) = 3
    /\ Len(js_result.comments) = 1
    /\ js_result.comments[1].index = 1
    /\ Len(js_result.comments[1].content) > KeyLen

(***************************************************************************)
(* Two calls of scrape_comments in flight at once (asyncio: the calls of   *)
(* one process interleave at their awaits). Each call launches its own     *)
(* browser and context and keeps its scroll state in the locals of its own *)
(* call of scroll_and_load_comments; take_screenshot writes every call's   *)
(* screenshots to the same two files. A step of a call is what it does     *)
(* between two awaited answers of its own page: the screenshot, the first  *)
(* half of a round (height read, scroll), the second half (label clicks,   *)
(* which change no scroll state, height read, update), the extraction.     *)
(***************************************************************************)
RunIds == {1, 2}

\* What the call's own page answers to one step: the height read, how many
\* elements of the feed its document holds, whether the awaited call raises.
PageAnswers == [h : {0, MaxHeight}, shown : 0..Len(FlowFeed), raises : BOOLEAN]

RunStart(m) ==
    [pc |-> "shot1", max_rounds |-> m, round_num |-> 0, last_height |-> 0,
     stable_rounds |-> 0, curr_height |-> 0, ret |-> <<>>]

\* The outer handler of scrape_comments: log, return [].
RunRaised(r) == [r EXCEPT !.pc = "returned", !.ret = <<>>]

\* One step of a call on the answer a of its page.
RunStep(r, a) ==
    CASE r.pc \in {"shot1", "shot2"} ->
           [r EXCEPT !.pc = AfterScreenshot(r.pc)]
      [] r.pc = "loop" ->
           IF ~LoopGuard(r.round_num, r.max_rounds)
           THEN [r EXCEPT !.pc = "shot2"]
           ELSE IF a.raises
           THEN RunRaised([r EXCEPT !.round_num = @ + 1])
           ELSE [r EXCEPT !.pc = "check",
                          !.round_num = @ + 1,
                          !.curr_height = a.h]
      [] r.pc = "check" ->
           IF a.raises
           THEN RunRaised(r)
           ELSE LET same == Unchanged(a.h, r.curr_height, r.last_height)
                    s == NextStable(r.stable_rounds, same)
                IN  [r EXCEPT !.stable_rounds = s,
                              !.last_height = IF same THEN @ ELSE a.h,
                              !.pc = IF same /\ s >= StableLimit("comments")
                                     THEN "shot2" ELSE "loop"]
      [] r.pc = "extract" ->
           [r EXCEPT !.pc = "returned",
                     !.ret = IF a.raises THEN <<>>
                             ELSE ExtractJs(SubSeq(FlowFeed, 1, a.shown)).comments]
      [] OTHER -> r

\* The file take_screenshot writes at this position.
ShotFile(p) == IF p = "shot1" THEN "page_initial.png" ELSE "page_after_scroll.png"

\* Where call i keeps last_height and stable_rounds: in its own locals.
ScrollOwner(i) == i

\* Call i takes one step.
RunAct(i) ==
    /\ runs[i].pc # "returned"
    /\ \E a \in PageAnswers :
          LET o == ScrollOwner(i)
              r == [runs[i] EXCEPT !.last_height = runs[o].last_height,
                                   !.stable_rounds = runs[o].stable_rounds]
              n == RunStep(r, a)
          IN  /\ runs' = [j \in RunIds |->
                    IF j = i /\ j = o THEN n
                    ELSE IF j = i
                    THEN [n EXCEPT !.last_height = runs[i].last_height,
                                   !.stable_rounds = runs[i].stable_rounds]
                    ELSE IF j = o
                    THEN [runs[j] EXCEPT !.last_height = n.last_height,
                                         !.stable_rounds = n.stable_rounds]
                    ELSE runs[j]]
              /\ shots' = IF runs[i].pc \in {"shot1", "shot2"} /\ ~a.raises
                          THEN [shots EXCEPT ![ShotFile(runs[i].pc)] = @ \cup {i}]
                          ELSE shots
    /\ UNCHANGED <<pc, driver, max_rounds, sim, feed, dom, cookies, injected,
                   is_logged_in, js_result, ret, failed, scraper,
                   cookie_string, cookie_file, now, probe>>
    /\ UNCHANGED driverVars

InitTwo ==
    /\ pc = "returned"
    /\ driver = "comments"
    /\ max_rounds = 0
    /\ sim = <<>>
    /\ feed = <<>>
    /\ dom = <<>>
    /\ DriverStart
    /\ FlowStart
    /\ scraper = "cookie_extractor"
    /\ cookie_string = <<>>
    /\ cookie_file = NoPath
    /\ now = 0
    /\ probe = QuietProbe
    /\ \E m \in 1..MaxScrolls : runs = <<RunStart(MaxRounds), RunStart(m)>>
    /\ shots = [f \in {"page_initial.png", "page_after_scroll.png"} |-> {}]

NextTwo == \E i \in RunIds : RunAct(i)

SpecTwo == InitTwo /\ [][NextTwo]_vars

\* Every step is the step one call would take alone on the answer of its own
\* page (its scroll state moves as it does alone, its result is what it
\* extracts alone) and leaves the other call's scroll state and result alone.
CallsStepAlone ==
    \E i \in RunIds : \E a \in PageAnswers :
       /\ runs'[i] = RunStep(runs[i], a)
       /\ \A j \in RunIds \ {i} : runs'[j] = runs[j]

\* C21: two calls of scrape_comments in flight at once, each on its own
\* browser and context, share no mutable state (nothing is written by both),
\* and under every interleaving of their steps the scroll state trajectory
\* and the result of each are what they are when it runs alone.
C21_ConcurrentCallsShareNothing ==
    /\ [](\A f \in DOMAIN shots : Cardinality(shots[f]) <= 1)
    /\ [][CallsStepAlone]_vars

\* Both calls have returned after interleaved steps, one stopped by
\* stability and one by its budget, with different results, and each of the
\* two screenshot files has been written by both.
C21_Witness ==
    /\ runs[1].pc = "returned" /\ runs[2].pc = "returned"
    /\ runs[1].stable_rounds = StableLimit("comments")
    /\ runs[1].round_num < runs[1].max_rounds
    /\ runs[2].round_num = runs[2].max_rounds
    /\ runs[2].stable_rounds = 0
    /\ Len(runs[1].ret) = 1 /\ Len(runs[2].ret) = 2
    /\ \A f \in DOMAIN shots : shots[f] = RunIds

====
